---- MODULE Spec2Model ----
(***************************************************************************)
(* Model of the bridge service (src/bridge/main.py): a Flask application   *)
(* with two unprotected routes (docs, health) and five protected, read-    *)
(* only routes over a PostgreSQL store (Chatwoot) and a MongoDB store      *)
(* (LibreChat).  Each request is handled by a worker that walks through    *)
(* URL matching, the API-key check, argument parsing, opening a backend    *)
(* connection, running one query, closing the connection and responding.   *)
(***************************************************************************)
EXTENDS Integers, Sequences, FiniteSets, TLC

VARIABLES
    pg,        \* the PostgreSQL database: [conversations, messages], sequences of rows in heap order
    mongo,     \* the MongoDB database: [conversations, messages, users], sequences of documents
    pc,        \* per worker: "idle", "routing", "view", "auth", "connect", "query", "close", "done"
    req,       \* per worker: the request being handled
    endpoint,  \* per worker: the view function the URL map resolved ("" before routing)
    args,      \* per worker: the handler's locals limit, offset (or skip), conversation_id
    conn,      \* per worker: TRUE while the handler's conn / client is open
    leaked,    \* per worker: TRUE when an earlier request of this worker left its connection open
    results,   \* per worker: the handler's local results / conversations / messages / users
    exc,       \* per worker: str(e) of the exception raised inside the try block, or None
    resp,      \* per worker: the response emitted
    opened,    \* per worker: how many times the request invoked a connector
    executed,  \* per worker: how many times the request ran its query
    obs        \* per worker: what the request observed of its backend's availability

vars == <<pg, mongo, pc, req, endpoint, args, conn, leaked, results, exc, resp,
          opened, executed, obs>>

-----------------------------------------------------------------------------
(* Bounds of the model. *)

MaxRecords == 2   \* rows / documents per table or collection
MaxArg == 2       \* largest limit / offset / skip value a request carries

(* Program constants. *)

DefaultConversationsLimit == 50
DefaultMessagesLimit == 100
DefaultOffset == 0

API_KEY == "deepnote-api-key-change-me"

Slots == {1, 2}          \* request-serving workers
Times == {1, 2}          \* creation timestamps
None == "<None>"         \* Python's None

-----------------------------------------------------------------------------
(* Text: strings that the code parses are sequences of characters. *)

Digits == <<"0", "1", "2", "3", "4", "5", "6", "7", "8", "9">>

IsDigit(c) == \E i \in 1..10 : Digits[i] = c

DigitValue(c) == (CHOOSE i \in 1..10 : Digits[i] = c) - 1

IsDigits(cs) == Len(cs) >= 1 /\ \A i \in 1..Len(cs) : IsDigit(cs[i])

RECURSIVE DecimalValue(_)
DecimalValue(cs) ==
    IF cs = <<>> THEN 0
    ELSE 10 * DecimalValue(SubSeq(cs, 1, Len(cs) - 1)) + DigitValue(cs[Len(cs)])

(* Python int(text): an optional sign followed by decimal digits. *)
IsIntText(cs) ==
    \/ IsDigits(cs)
    \/ Len(cs) >= 2 /\ cs[1] = "-" /\ IsDigits(Tail(cs))

IntValue(cs) == IF cs[1] = "-" THEN 0 - DecimalValue(Tail(cs)) ELSE DecimalValue(cs)

(* The decimal text of a small natural number. *)
RECURSIVE Decimal(_)
Decimal(n) == IF n < 10 THEN <<Digits[n + 1]>> ELSE Decimal(n \div 10) \o <<Digits[(n % 10) + 1]>>

-----------------------------------------------------------------------------
(* The backing stores.  Rows and documents carry the columns the queries   *)
(* filter, sort and project on.                                            *)

Min(a, b) == IF a <= b THEN a ELSE b

Abs(n) == IF n < 0 THEN 0 - n ELSE n

(* The document store keeps conversationId as text. *)
LcConversationId(k) == IF k = 1 THEN <<"1">> ELSE <<"a">>

PgDatabase(seed, own) ==
    [conversations |-> [i \in 1..Len(seed) |-> [id |-> i, created_at |-> seed[i]]],
     messages      |-> [i \in 1..Len(seed) |->
                          [id |-> i, conversation_id |-> own[i], created_at |-> seed[i]]]]

MongoDatabase(seed, own) ==
    [conversations |-> [i \in 1..Len(seed) |-> [_id |-> i, createdAt |-> seed[i]]],
     messages      |-> [i \in 1..Len(seed) |->
                          [_id |-> i, conversationId |-> LcConversationId(own[i]),
                           createdAt |-> seed[i]]],
     users         |-> [i \in 1..Len(seed) |-> [_id |-> i, createdAt |-> seed[i]]]]

(* ORDER BY f DESC / .sort(f, -1): rows with equal keys keep their stored order. *)
InsertDesc(row, sorted, f) ==
    LET k == Cardinality({i \in 1..Len(sorted) : sorted[i][f] >= row[f]})
    IN  SubSeq(sorted, 1, k) \o <<row>> \o SubSeq(sorted, k + 1, Len(sorted))

RECURSIVE SortDescBy(_, _)
SortDescBy(rows, f) ==
    IF rows = <<>> THEN <<>>
    ELSE InsertDesc(rows[Len(rows)], SortDescBy(SubSeq(rows, 1, Len(rows) - 1), f), f)

(* WHERE column = value / find({field: value}) *)
RECURSIVE Where(_, _, _)
Where(rows, f, v) ==
    IF rows = <<>> THEN <<>>
    ELSE (IF Head(rows)[f] = v THEN <<Head(rows)>> ELSE <<>>) \o Where(Tail(rows), f, v)

(* The projection of find(filter, projection). *)
Project(docs, fields) == [i \in 1..Len(docs) |-> [f \in fields |-> docs[i][f]]]

(* LIMIT limit OFFSET offset, both non-negative. *)
PgLimitOffset(rows, limit, offset) ==
    SubSeq(rows, offset + 1, Min(Len(rows), offset + limit))

(* cursor.skip(skip).limit(limit): a limit of 0 is no limit, a negative   *)
(* limit returns a single batch of at most abs(limit) documents.           *)
MongoSkipLimit(docs, skip, limit) ==
    LET rest == SubSeq(docs, skip + 1, Len(docs))
    IN  IF limit = 0 THEN rest ELSE SubSeq(rest, 1, Min(Len(rest), Abs(limit)))

Rows(rs) == [ok |-> TRUE, rows |-> rs]

Raise(text) == [ok |-> FALSE, error |-> text]

(* cur.execute(...) and cur.fetchall() of get_chatwoot_conversations. *)
chatwoot_conversations_query(db, up, limit, offset) ==
    IF ~up THEN Raise("server closed the connection unexpectedly")
    ELSE IF offset < 0 THEN Raise("OFFSET must not be negative")
    ELSE IF limit < 0 THEN Raise("LIMIT must not be negative")
    ELSE Rows(PgLimitOffset(SortDescBy(db.conversations, "created_at"), limit, offset))

(* cur.execute(...) and cur.fetchall() of get_chatwoot_messages. *)
chatwoot_messages_query(db, up, conversation_id, limit) ==
    IF ~up THEN Raise("server closed the connection unexpectedly")
    ELSE IF limit < 0 THEN Raise("LIMIT must not be negative")
    ELSE Rows(PgLimitOffset(
                SortDescBy(Where(db.messages, "conversation_id", conversation_id),
                           "created_at"), limit, 0))

(* list(db.conversations.find(...).sort(...).skip(skip).limit(limit)) *)
librechat_conversations_query(db, up, limit, skip) ==
    IF skip < 0 THEN Raise("skip must be >= 0")
    ELSE IF ~up THEN Raise("No servers found yet")
    ELSE Rows(MongoSkipLimit(
                SortDescBy(Project(db.conversations, {"_id", "createdAt"}), "createdAt"),
                skip, limit))

(* list(db.messages.find({"conversationId": conversation_id}, ...).sort(...).limit(limit)) *)
librechat_messages_query(db, up, conversation_id, limit) ==
    IF ~up THEN Raise("No servers found yet")
    ELSE Rows(MongoSkipLimit(
                SortDescBy(Project(Where(db.messages, "conversationId", conversation_id),
                                   {"_id", "createdAt"}), "createdAt"),
                0, limit))

(* list(db.users.find({}, ...)) *)
librechat_users_query(db, up) ==
    IF ~up THEN Raise("No servers found yet")
    ELSE Rows(Project(db.users, {"_id", "createdAt"}))

(* bson.json_util.dumps: the JSON text of a list of documents, as tokens. *)
DumpDocument(d) ==
    <<"{", "_id", "$oid">> \o Decimal(d._id) \o <<",", "createdAt", "$date">>
        \o Decimal(d.createdAt) \o <<"}">>

RECURSIVE DumpItems(_)
DumpItems(docs) ==
    IF docs = <<>> THEN <<>>
    ELSE IF Len(docs) = 1 THEN DumpDocument(docs[1])
    ELSE DumpDocument(docs[1]) \o <<",">> \o DumpItems(Tail(docs))

dumps(docs) == <<"[">> \o DumpItems(docs) \o <<"]">>

-----------------------------------------------------------------------------
(* Requests.  target is the shape of the URL path, seg the path segment in *)
(* the place of <conversation_id>, headers and query the parameters that   *)
(* are present, each with its text.                                        *)

Protected == {"get_chatwoot_conversations", "get_chatwoot_messages",
              "get_librechat_conversations", "get_librechat_messages",
              "get_librechat_users"}

Paginated == Protected \ {"get_librechat_users"}

Postgres == {"get_chatwoot_conversations", "get_chatwoot_messages"}

Targets == Protected \cup {"docs", "health_check"}

NoHeaders == [h \in {} |-> ""]

NoQuery == [q \in {} |-> <<>>]

Header(value) == [h \in {"X-API-Key"} |-> value]

Headers == {NoHeaders, Header("wrong"), Header(API_KEY)}

ArgTexts == {<<"a">>, <<"-", "1">>} \cup {Decimal(n) : n \in 0..MaxArg}

Segments == {<<"1">>, <<"0", "1">>, <<"a">>, <<"9", "9", "9", "9">>}

LimitQueries == {NoQuery} \cup {[limit |-> l] : l \in ArgTexts}

OffsetQueries == LimitQueries \cup {[limit |-> l, offset |-> o] : l \in ArgTexts, o \in ArgTexts}
                              \cup {[offset |-> o] : o \in ArgTexts}

SkipQueries == LimitQueries \cup {[limit |-> l, skip |-> o] : l \in ArgTexts, o \in ArgTexts}
                            \cup {[skip |-> o] : o \in ArgTexts}

Request(target, seg, headers, query) ==
    [target |-> target, seg |-> seg, headers |-> headers, query |-> query]

Requests ==
    {Request(t, <<>>, h, NoQuery) : t \in {"docs", "health_check", "get_librechat_users"},
                                    h \in Headers}
    \cup {Request("get_chatwoot_conversations", <<>>, h, q) : h \in Headers, q \in OffsetQueries}
    \cup {Request("get_librechat_conversations", <<>>, h, q) : h \in Headers, q \in SkipQueries}
    \cup {Request(t, g, h, q) : t \in {"get_chatwoot_messages", "get_librechat_messages"},
                                g \in Segments, h \in Headers, q \in LimitQueries}

(* The requests that concurrent workers receive. *)
ConcurrentRequests ==
    {r \in Requests :
        /\ r.headers # NoHeaders
        /\ r.seg \in {<<>>, <<"1">>, <<"a">>}
        /\ r.query \in {NoQuery, [limit |-> <<"1">>]}}

(* request.headers.get(name): the header's value, or None. *)
HeadersGet(headers, name) == IF name \in DOMAIN headers THEN headers[name] ELSE None

(* An argument parser whose default is a module-level value that the      *)
(* request in flight on another worker has overwritten with its own limit. *)
ArgsGetShared(query, name, default) ==
    IF name \in DOMAIN query /\ IsIntText(query[name]) THEN IntValue(query[name])
    ELSE IF \E t \in Slots : pc[t] \in {"connect", "query", "close"} /\ args[t].limit = 1
    THEN 1 ELSE default

(* request.args.get(name, default, type=int): the default when the         *)
(* parameter is missing or int() rejects its text.                         *)
ArgsGet(query, name, default) ==
    IF name \in DOMAIN query /\ IsIntText(query[name]) THEN IntValue(query[name])
    ELSE default

(* The URL map: <int:conversation_id> matches \d+ and converts it with     *)
(* int(); <conversation_id> matches any non-empty segment and keeps it.    *)
IntConverterMatches(seg) == IsDigits(seg)

IntConverter(seg) == DecimalValue(seg)

StringConverterMatches(seg) == Len(seg) >= 1

(* A URL map that declares both message routes with <int:conversation_id>. *)
UrlMatchIntegerIds(r) ==
    IF r.target \in {"get_chatwoot_messages", "get_librechat_messages"}
    THEN (IF IntConverterMatches(r.seg)
          THEN [endpoint |-> r.target, conversation_id |-> IntConverter(r.seg)]
          ELSE [endpoint |-> "NotFound", conversation_id |-> None])
    ELSE [endpoint |-> r.target, conversation_id |-> None]

UrlMatch(r) ==
    IF r.target = "get_chatwoot_messages"
    THEN (IF IntConverterMatches(r.seg)
          THEN [endpoint |-> r.target, conversation_id |-> IntConverter(r.seg)]
          ELSE [endpoint |-> "NotFound", conversation_id |-> None])
    ELSE IF r.target = "get_librechat_messages"
    THEN (IF StringConverterMatches(r.seg)
          THEN [endpoint |-> r.target, conversation_id |-> r.seg]
          ELSE [endpoint |-> "NotFound", conversation_id |-> None])
    ELSE [endpoint |-> r.target, conversation_id |-> None]

-----------------------------------------------------------------------------
(* Responses. *)

NoResponse == [status |-> 0, mimetype |-> "", body |-> ""]

jsonify(body, status) == [status |-> status, mimetype |-> "application/json", body |-> body]

(* What Flask makes of a str return value, of a URL that matches no rule,  *)
(* and of an exception that leaves a view function.                        *)
HtmlResponse(status, text) == [status |-> status, mimetype |-> "text/html", body |-> text]

NotFound == HtmlResponse(404, "Not Found")

InternalServerError == HtmlResponse(500, "Internal Server Error")

(* A key check that lets a request without the header through. *)
require_api_key_missing_ok(r) ==
    IF "X-API-Key" \in DOMAIN r.headers /\ r.headers["X-API-Key"] # API_KEY
    THEN jsonify([error |-> "Unauthorized - Invalid API key"], 401)
    ELSE NoResponse

(* require_api_key: the 401 response, or nothing (NoResponse stands for    *)
(* the None it returns) when the key matches.                              *)
require_api_key(r) ==
    IF HeadersGet(r.headers, "X-API-Key") # API_KEY
    THEN jsonify([error |-> "Unauthorized - Invalid API key"], 401)
    ELSE NoResponse

(* The replacement fields str.format finds in DOCS_HTML, in order: the CSS *)
(* rules' braces come first, {base_url} last.                              *)
DOCS_HTML == <<" font-family", " color", "base_url">>

(* str.format with keyword arguments: KeyError at the first field that is  *)
(* no keyword.                                                             *)
Format(fields, kwargs) ==
    IF \E i \in 1..Len(fields) : fields[i] \notin kwargs
    THEN Raise("KeyError") ELSE Rows(<<"html">>)

(* The key a handler wraps its result under. *)
ResourceKey(e) ==
    IF e \in {"get_chatwoot_conversations", "get_librechat_conversations"} THEN "conversations"
    ELSE IF e \in {"get_chatwoot_messages", "get_librechat_messages"} THEN "messages"
    ELSE "users"

(* A handler that answers 404 when nothing matched. *)
SuccessResponseOr404(e, rs) ==
    IF rs = <<>> THEN jsonify([error |-> "Not found"], 404)
    ELSE jsonify([k \in {ResourceKey(e)} |-> IF e \in Postgres THEN rs ELSE dumps(rs)], 200)

(* return jsonify({"<resource>": results}) / jsonify({"<resource>": dumps(results)}) *)
SuccessResponse(e, rs) ==
    jsonify([k \in {ResourceKey(e)} |-> IF e \in Postgres THEN rs ELSE dumps(rs)], 200)

(* An error reported as plain text: return str(e), 500. *)
ErrorResponseText(text) == HtmlResponse(500, text)

(* except Exception as e: return jsonify({"error": str(e)}), 500 *)
ErrorResponse(text) == jsonify([error |-> text], 500)

-----------------------------------------------------------------------------
(* The state machine. *)

Seeds == UNION {[1..n -> Times] : n \in 0..MaxRecords}

Owners(n) == [1..n -> {1, 2}]

NoArgs == [limit |-> 0, offset |-> 0, conversation_id |-> None]

Idle ==
    /\ pc = [s \in Slots |-> "idle"]
    /\ req = [s \in Slots |-> Request("", <<>>, NoHeaders, NoQuery)]
    /\ endpoint = [s \in Slots |-> ""]
    /\ args = [s \in Slots |-> NoArgs]
    /\ conn = [s \in Slots |-> FALSE]
    /\ leaked = [s \in Slots |-> FALSE]
    /\ results = [s \in Slots |-> <<>>]
    /\ exc = [s \in Slots |-> None]
    /\ resp = [s \in Slots |-> NoResponse]
    /\ opened = [s \in Slots |-> 0]
    /\ executed = [s \in Slots |-> 0]
    /\ obs = [s \in Slots |-> <<>>]

Init ==
    /\ \E seed \in Seeds : \E own \in Owners(Len(seed)) :
          /\ pg = PgDatabase(seed, own)
          /\ mongo = MongoDatabase(seed, own)
    /\ Idle

(* The stores under which concurrent workers are explored: full tables. *)
InitConcurrent ==
    /\ \E seed \in Seeds :
          /\ Len(seed) = MaxRecords
          /\ pg = PgDatabase(seed, [i \in 1..Len(seed) |-> 1])
          /\ mongo = MongoDatabase(seed, [i \in 1..Len(seed) |-> 1])
    /\ Idle

(* An idle worker takes a request. *)
Receive(s, r) ==
    /\ pc[s] = "idle"
    /\ pc' = [pc EXCEPT ![s] = "routing"]
    /\ req' = [req EXCEPT ![s] = r]
    /\ UNCHANGED <<pg, mongo, endpoint, args, conn, leaked, results, exc, resp,
                   opened, executed, obs>>

(* The response is sent and the handler's frame is gone; a connection the  *)
(* handler never closed stays open.                                        *)
Return(s) ==
    /\ pc[s] = "done"
    /\ pc' = [pc EXCEPT ![s] = "idle"]
    /\ req' = [req EXCEPT ![s] = Request("", <<>>, NoHeaders, NoQuery)]
    /\ endpoint' = [endpoint EXCEPT ![s] = ""]
    /\ args' = [args EXCEPT ![s] = NoArgs]
    /\ leaked' = [leaked EXCEPT ![s] = leaked[s] \/ conn[s]]
    /\ conn' = [conn EXCEPT ![s] = FALSE]
    /\ results' = [results EXCEPT ![s] = <<>>]
    /\ exc' = [exc EXCEPT ![s] = None]
    /\ resp' = [resp EXCEPT ![s] = NoResponse]
    /\ opened' = [opened EXCEPT ![s] = 0]
    /\ executed' = [executed EXCEPT ![s] = 0]
    /\ obs' = [obs EXCEPT ![s] = <<>>]
    /\ UNCHANGED <<pg, mongo>>

(* Flask matches the URL against the rules of the app.route decorators. *)
Dispatch(s) ==
    /\ pc[s] = "routing"
    /\ LET m == UrlMatch(req[s])
       IN  /\ endpoint' = [endpoint EXCEPT ![s] = m.endpoint]
           /\ args' = [args EXCEPT ![s].conversation_id = m.conversation_id]
           /\ IF m.endpoint = "NotFound"
              THEN /\ resp' = [resp EXCEPT ![s] = NotFound]
                   /\ pc' = [pc EXCEPT ![s] = "done"]
              ELSE /\ resp' = resp
                   /\ pc' = [pc EXCEPT ![s] = "view"]
    /\ UNCHANGED <<pg, mongo, req, conn, leaked, results, exc, opened, executed, obs>>

(* docs: the KeyError of DOCS_HTML.format leaves the view function. *)
docs(s) ==
    /\ pc[s] = "view" /\ endpoint[s] = "docs"
    /\ LET page == Format(DOCS_HTML, {"base_url"})
       IN  resp' = [resp EXCEPT ![s] = IF page.ok THEN HtmlResponse(200, "html")
                                       ELSE InternalServerError]
    /\ pc' = [pc EXCEPT ![s] = "done"]
    /\ UNCHANGED <<pg, mongo, req, endpoint, args, conn, leaked, results, exc,
                   opened, executed, obs>>

health_check(s) ==
    /\ pc[s] = "view" /\ endpoint[s] = "health_check"
    /\ resp' = [resp EXCEPT ![s] =
                  jsonify([status |-> "healthy", service |-> "ai-ecosystem-bridge"], 200)]
    /\ pc' = [pc EXCEPT ![s] = "done"]
    /\ UNCHANGED <<pg, mongo, req, endpoint, args, conn, leaked, results, exc,
                   opened, executed, obs>>

DefaultLimit(e) ==
    IF e \in {"get_chatwoot_conversations", "get_librechat_conversations"}
    THEN DefaultConversationsLimit ELSE DefaultMessagesLimit

OffsetName(e) == IF e = "get_librechat_conversations" THEN "skip" ELSE "offset"

(* limit = request.args.get("limit", ..., type=int) and, on the two        *)
(* conversation routes, offset / skip likewise.                            *)
ParseArgs(e, query, conversation_id) ==
    [limit  |-> IF e \in Paginated THEN ArgsGet(query, "limit", DefaultLimit(e)) ELSE 0,
     offset |-> IF e \in {"get_chatwoot_conversations", "get_librechat_conversations"}
                THEN ArgsGet(query, OffsetName(e), DefaultOffset) ELSE 0,
     conversation_id |-> conversation_id]

(* The head of the five protected handlers: the key check, then the        *)
(* request.args.get calls.                                                 *)
Authorize(s) ==
    /\ pc[s] = "view" /\ endpoint[s] \in Protected
    /\ LET auth == require_api_key(req[s])
       IN  IF auth # NoResponse
           THEN /\ resp' = [resp EXCEPT ![s] = auth]
                /\ pc' = [pc EXCEPT ![s] = "done"]
                /\ args' = args
           ELSE /\ resp' = resp
                /\ pc' = [pc EXCEPT ![s] = "connect"]
                /\ args' = [args EXCEPT ![s] =
                              ParseArgs(endpoint[s], req[s].query, args[s].conversation_id)]
    /\ UNCHANGED <<pg, mongo, req, endpoint, conn, leaked, results, exc,
                   opened, executed, obs>>

(* An except branch that re-raises: Flask answers with its own 500 page. *)
HandleExceptionReraise(s, text) ==
    /\ exc' = [exc EXCEPT ![s] = text]
    /\ resp' = [resp EXCEPT ![s] = InternalServerError]
    /\ pc' = [pc EXCEPT ![s] = "done"]
    /\ conn' = conn

(* An except branch that resets a connection table shared by all workers. *)
HandleExceptionShared(s, text) ==
    /\ exc' = [exc EXCEPT ![s] = text]
    /\ resp' = [resp EXCEPT ![s] = ErrorResponse(text)]
    /\ pc' = [pc EXCEPT ![s] = "done"]
    /\ conn' = [t \in Slots |-> FALSE]

(* except Exception as e: the handler returns the 500 response; nothing    *)
(* in the except branch closes conn / client.                              *)
HandleException(s, text) ==
    /\ exc' = [exc EXCEPT ![s] = text]
    /\ resp' = [resp EXCEPT ![s] = ErrorResponse(text)]
    /\ pc' = [pc EXCEPT ![s] = "done"]
    /\ conn' = conn

(* get_postgres_connection() connects at once; MongoClient(uri) connects   *)
(* lazily, so get_mongo_client() succeeds whatever the server's state.     *)
Connect(s, up) ==
    /\ pc[s] = "connect"
    /\ opened' = [opened EXCEPT ![s] = @ + 1]
    /\ IF endpoint[s] \in Postgres
       THEN /\ obs' = [obs EXCEPT ![s] = Append(@, up)]
            /\ IF up
               THEN /\ conn' = [conn EXCEPT ![s] = TRUE]
                    /\ pc' = [pc EXCEPT ![s] = "query"]
                    /\ UNCHANGED <<exc, resp>>
               ELSE HandleException(s, "could not connect to server")
       ELSE /\ obs' = obs
            /\ conn' = [conn EXCEPT ![s] = TRUE]
            /\ pc' = [pc EXCEPT ![s] = "query"]
            /\ UNCHANGED <<exc, resp>>
    /\ UNCHANGED <<pg, mongo, req, endpoint, args, leaked, results, executed>>

(* The query each handler runs. *)
Query(e, a, up) ==
    IF e = "get_chatwoot_conversations"
    THEN chatwoot_conversations_query(pg, up, a.limit, a.offset)
    ELSE IF e = "get_chatwoot_messages"
    THEN chatwoot_messages_query(pg, up, a.conversation_id, a.limit)
    ELSE IF e = "get_librechat_conversations"
    THEN librechat_conversations_query(mongo, up, a.limit, a.offset)
    ELSE IF e = "get_librechat_messages"
    THEN librechat_messages_query(mongo, up, a.conversation_id, a.limit)
    ELSE librechat_users_query(mongo, up)

(* The query is executed and its rows / documents are materialized. *)
Execute(s, up) ==
    /\ pc[s] = "query"
    /\ executed' = [executed EXCEPT ![s] = @ + 1]
    /\ obs' = [obs EXCEPT ![s] = Append(@, up)]
    /\ LET q == Query(endpoint[s], args[s], up)
       IN  IF q.ok
           THEN /\ results' = [results EXCEPT ![s] = q.rows]
                /\ pc' = [pc EXCEPT ![s] = "close"]
                /\ UNCHANGED <<exc, resp, conn>>
           ELSE /\ results' = results
                /\ HandleException(s, q.error)
    /\ UNCHANGED <<pg, mongo, req, endpoint, args, leaked, opened>>

(* cur.close(); conn.close() / client.close(), then return jsonify(...). *)
Close(s) ==
    /\ pc[s] = "close"
    /\ conn' = [conn EXCEPT ![s] = FALSE]
    /\ resp' = [resp EXCEPT ![s] = SuccessResponse(endpoint[s], results[s])]
    /\ pc' = [pc EXCEPT ![s] = "done"]
    /\ UNCHANGED <<pg, mongo, req, endpoint, args, leaked, results, exc,
                   opened, executed, obs>>

Step(s) ==
    \/ Dispatch(s)
    \/ docs(s)
    \/ health_check(s)
    \/ Authorize(s)
    \/ \E up \in BOOLEAN : Connect(s, up)
    \/ \E up \in BOOLEAN : Execute(s, up)
    \/ Close(s)
    \/ Return(s)

(* One worker, every request. *)
Next ==
    \/ \E r \in Requests : Receive(1, r)
    \/ Step(1)

Spec == Init /\ [][Next]_vars

(* Two workers serving requests concurrently. *)
NextConcurrent ==
    \E s \in Slots :
        \/ \E r \in ConcurrentRequests : Receive(s, r)
        \/ Step(s)

SpecConcurrent == InitConcurrent /\ [][NextConcurrent]_vars

-----------------------------------------------------------------------------
(* Properties. *)

Authorized(s) == HeadersGet(req[s].headers, "X-API-Key") = API_KEY

IsJsonObject(r) == r.mimetype = "application/json"

IsErrorBody(r, text) ==
    /\ IsJsonObject(r)
    /\ DOMAIN r.body = {"error"}
    /\ r.body.error = text

(* C1: on each of the five protected routes a request whose X-API-Key      *)
(* header is absent or differs from API_KEY is answered 401 with the body  *)
(* {"error": "Unauthorized - Invalid API key"}, the same on every route,   *)
(* and at no point of its handling is a backend connection opened or a     *)
(* query run.                                                              *)
C1_UnauthorizedIsRejectedBeforeBackend ==
    \A s \in Slots :
        (endpoint[s] \in Protected /\ ~Authorized(s)) =>
            /\ opened[s] = 0 /\ executed[s] = 0 /\ ~conn[s]
            /\ pc[s] \in {"view", "done"}
            /\ pc[s] = "done" =>
                  /\ resp[s].status = 401
                  /\ IsErrorBody(resp[s], "Unauthorized - Invalid API key")

C1_Witness ==
    \E s \in Slots :
        /\ pc[s] = "done" /\ endpoint[s] = "get_librechat_users"
        /\ req[s].headers = NoHeaders
        /\ resp[s].status = 401

(* C2: on an authorized request to a protected route, a failure raised     *)
(* while connecting, executing the query or materializing its results is   *)
(* caught in the handler and answered 500 with a JSON body whose error     *)
(* field is the failure's non-empty text; the request invokes the          *)
(* connector and the query at most once.                                   *)
C2_BackendFailureIsAnswered500 ==
    \A s \in Slots :
        /\ opened[s] <= 1 /\ executed[s] <= 1
        /\ (exc[s] # None \/ \E i \in 1..Len(obs[s]) : ~obs[s][i]) =>
              /\ pc[s] = "done"
              /\ exc[s] \notin {None, ""}
              /\ resp[s].status = 500
              /\ IsErrorBody(resp[s], exc[s])

C2_Witness ==
    \E s \in Slots :
        /\ pc[s] = "done" /\ endpoint[s] = "get_chatwoot_conversations"
        /\ obs[s] = <<TRUE, FALSE>>
        /\ resp[s].status = 500

CreatedKey(e) == IF e \in Postgres THEN "created_at" ELSE "createdAt"

IsDescending(rs, f) == \A i \in 1..Len(rs) : \A j \in i..Len(rs) : rs[i][f] >= rs[j][f]

ValidArgs(a) == a.limit >= 0 /\ a.offset >= 0

Max(a, b) == IF a >= b THEN a ELSE b

(* C3: on the four paginated routes, with a limit and an offset / skip     *)
(* that are not negative, the list of a 200 response has at most limit     *)
(* entries and is ordered by creation time, newest first.                  *)
C3_AtMostLimitNewestFirst ==
    \A s \in Slots :
        (pc[s] = "done" /\ endpoint[s] \in Paginated /\ resp[s].status = 200
            /\ ValidArgs(args[s])) =>
            /\ Len(results[s]) <= args[s].limit
            /\ IsDescending(results[s], CreatedKey(endpoint[s]))

(* The stored conversations of a conversation route, newest first. *)
NewestFirst(e) ==
    IF e = "get_chatwoot_conversations" THEN SortDescBy(pg.conversations, "created_at")
    ELSE SortDescBy(Project(mongo.conversations, {"_id", "createdAt"}), "createdAt")

(* C4: the two conversation routes return the window of the newest-first   *)
(* ordering that skips offset / skip records and holds the next limit      *)
(* ones, min(limit, max(0, n - offset)) entries of n stored; an omitted    *)
(* limit is 50 and an omitted offset / skip is 0.                          *)
C4_ExactWindow ==
    \A s \in Slots :
        (pc[s] = "done" /\ resp[s].status = 200 /\ ValidArgs(args[s])
            /\ endpoint[s] \in {"get_chatwoot_conversations", "get_librechat_conversations"}) =>
            LET all == NewestFirst(endpoint[s])
                k == Min(args[s].limit, Max(0, Len(all) - args[s].offset))
            IN  /\ Len(results[s]) = k
                /\ results[s] = SubSeq(all, args[s].offset + 1, args[s].offset + k)
                /\ "limit" \notin DOMAIN req[s].query => args[s].limit = 50
                /\ OffsetName(endpoint[s]) \notin DOMAIN req[s].query => args[s].offset = 0

JsonEnvelope(e, r) ==
    /\ IsJsonObject(r)
    /\ (r.status = 200 /\ e \in Protected) => DOMAIN r.body = {ResourceKey(e)}
    /\ r.status # 200 => DOMAIN r.body = {"error"}

(* C5 as stated: every response on every route has a JSON object as its    *)
(* body, with the result under the resource's key on success and a textual *)
(* error key on failure.                                                   *)
C5_EveryResponseIsJsonObject ==
    \A s \in Slots : pc[s] = "done" => JsonEnvelope(endpoint[s], resp[s])

(* C5 amended: every response that the health check or one of the five     *)
(* protected handlers returns (200, 401, 500) has a JSON object as its     *)
(* body; a protected handler's 200 body carries the result under the       *)
(* resource's key and its 401 / 500 bodies carry a textual error key.      *)
C5_HandlerResponsesAreJsonObjects ==
    \A s \in Slots :
        (pc[s] = "done" /\ endpoint[s] \in Protected \cup {"health_check"}) =>
            JsonEnvelope(endpoint[s], resp[s])

C5_Witness ==
    \E s \in Slots :
        /\ pc[s] = "done" /\ endpoint[s] = "get_librechat_conversations"
        /\ resp[s].status = 500
        /\ resp[s].body.error = "No servers found yet"

NonInteger(seg) == Len(seg) >= 1 /\ ~IsIntText(seg)

(* The _id values of a sequence of documents. *)
Ids(ds) == {ds[i]._id : i \in 1..Len(ds)}

(* C6: a non-integer conversation id is rejected by routing on the         *)
(* relational messages route, before the handler and the backend are       *)
(* reached, and accepted on the document messages route, where the handler *)
(* filters conversationId by the very text of the path segment.            *)
C6_IntegerIdVersusOpaqueId ==
    \A s \in Slots :
        (pc[s] \notin {"idle", "routing"} /\ NonInteger(req[s].seg)) =>
            /\ req[s].target = "get_chatwoot_messages" =>
                  /\ endpoint[s] = "NotFound" /\ pc[s] = "done"
                  /\ resp[s] = NotFound
                  /\ opened[s] = 0 /\ executed[s] = 0
            /\ req[s].target = "get_librechat_messages" =>
                  /\ endpoint[s] = "get_librechat_messages"
                  /\ args[s].conversation_id = req[s].seg
                  /\ (pc[s] = "done" /\ resp[s].status = 200) =>
                        /\ Ids(results[s]) \subseteq
                              Ids(Where(mongo.messages, "conversationId", req[s].seg))
                        /\ "limit" \notin DOMAIN req[s].query =>
                              Ids(results[s]) =
                                 Ids(Where(mongo.messages, "conversationId", req[s].seg))

C6_Witness ==
    \E s \in Slots :
        /\ pc[s] = "done" /\ req[s].target = "get_librechat_messages"
        /\ req[s].seg = <<"a">>
        /\ resp[s].status = 200 /\ Len(results[s]) >= 1

(* How many stored records the query of a request matches. *)
MatchCount(e, a) ==
    IF e = "get_chatwoot_conversations" THEN Max(0, Len(pg.conversations) - a.offset)
    ELSE IF e = "get_chatwoot_messages"
    THEN Len(Where(pg.messages, "conversation_id", a.conversation_id))
    ELSE IF e = "get_librechat_conversations" THEN Max(0, Len(mongo.conversations) - a.offset)
    ELSE IF e = "get_librechat_messages"
    THEN Len(Where(mongo.messages, "conversationId", a.conversation_id))
    ELSE Len(mongo.users)

BackendUp(s) == \A i \in 1..Len(obs[s]) : obs[s][i]

(* C7: an authorized query with valid arguments that matches no stored     *)
(* record, against a backend that is up, is answered 200 with the empty    *)
(* list (its encoding, on the document routes) under the resource's key.   *)
C7_NoMatchIsEmptySuccess ==
    \A s \in Slots :
        (pc[s] = "done" /\ endpoint[s] \in Protected /\ Authorized(s) /\ BackendUp(s)
            /\ ValidArgs(args[s]) /\ MatchCount(endpoint[s], args[s]) = 0) =>
            /\ resp[s].status = 200
            /\ IsJsonObject(resp[s])
            /\ DOMAIN resp[s].body = {ResourceKey(endpoint[s])}
            /\ resp[s].body[ResourceKey(endpoint[s])] =
                  IF endpoint[s] \in Postgres THEN <<>> ELSE <<"[", "]">>

C7_Witness ==
    \E s \in Slots :
        /\ pc[s] = "done" /\ endpoint[s] = "get_chatwoot_messages"
        /\ args[s].conversation_id = 9999
        /\ Len(pg.messages) >= 1
        /\ resp[s].status = 200 /\ resp[s].body.messages = <<>>

(* C8: no step of the service changes a record of either store, and two   *)
(* completed requests that are identical and saw the same availability of  *)
(* their backend carry the same status and body, whatever other requests   *)
(* ran before, between or beside them.                                     *)
C8_ReadsArePureAndIdempotent ==
    /\ [](\A s \in Slots : \A t \in Slots :
            (pc[s] = "done" /\ pc[t] = "done" /\ req[s] = req[t] /\ obs[s] = obs[t]) =>
                resp[s] = resp[t])
    /\ [][pg' = pg /\ mongo' = mongo]_vars

C8_Witness ==
    /\ pc[1] = "done" /\ pc[2] = "done"
    /\ req[1] = req[2] /\ obs[1] = obs[2]
    /\ endpoint[1] = "get_chatwoot_conversations"
    /\ "limit" \notin DOMAIN req[1].query
    /\ resp[1].status = 200 /\ Len(results[1]) >= 2
    /\ leaked[1]

(* Everything a worker holds for the request it is handling. *)
Frame(s) ==
    <<pc[s], req[s], endpoint[s], args[s], conn[s], leaked[s], results[s], exc[s],
      resp[s], opened[s], executed[s], obs[s]>>

(* The response a request gets when it is handled alone, given what it     *)
(* observes of its backend's availability.                                 *)
Outcome(r, o) ==
    LET m == UrlMatch(r)
        e == m.endpoint
        a == ParseArgs(e, r.query, m.conversation_id)
        q == Query(e, a, o[Len(o)])
    IN  IF e = "NotFound" THEN NotFound
        ELSE IF e = "docs" THEN InternalServerError
        ELSE IF e = "health_check"
        THEN jsonify([status |-> "healthy", service |-> "ai-ecosystem-bridge"], 200)
        ELSE IF require_api_key(r) # NoResponse THEN require_api_key(r)
        ELSE IF e \in Postgres /\ ~o[1] THEN ErrorResponse("could not connect to server")
        ELSE IF q.ok THEN SuccessResponse(e, q.rows)
        ELSE ErrorResponse(q.error)

(* C9: under every interleaving of two workers, a step of one worker       *)
(* changes nothing the other holds and nothing in the stores, and the      *)
(* response of a completed request is the one it gets when handled alone:  *)
(* it depends only on its own header, path and query and on its backend.   *)
(* In particular a request that ends in a 500 changes no other outcome.    *)
C9_RequestsAreIsolated ==
    /\ [](\A s \in Slots : pc[s] = "done" => resp[s] = Outcome(req[s], obs[s]))
    /\ [][\A s \in Slots :
            Frame(s)' # Frame(s) =>
                /\ \A t \in Slots \ {s} : Frame(t)' = Frame(t)
                /\ pg' = pg /\ mongo' = mongo]_vars

C9_Witness ==
    /\ pc[1] = "done" /\ pc[2] = "done"
    /\ endpoint[1] = "get_chatwoot_conversations" /\ obs[1] = <<FALSE>>
    /\ resp[1].status = 500
    /\ endpoint[2] = "get_chatwoot_conversations" /\ obs[2] = <<TRUE, TRUE>>
    /\ resp[2].status = 200 /\ Len(results[2]) >= 1

(* C10: an authorized call to a protected route opens one connection to    *)
(* its backend and has released it when the response is emitted, whether   *)
(* the query succeeded or failed, so that no completed request leaves a    *)
(* connection open.                                                        *)
C10_ConnectionsAreReleased ==
    \A s \in Slots :
        /\ (pc[s] = "done" /\ endpoint[s] \in Protected /\ Authorized(s)) =>
              opened[s] = 1 /\ ~conn[s]
        /\ ~leaked[s]

====
